---- MODULE Spec2Model ----
(***************************************************************************)
(* The aggregate-crls pipeline of crlite: discovery of CRL URLs per        *)
(* issuer (identifyCrlsByIssuer / findCrlWorker), retrieval into the CRL   *)
(* cache (downloadCRLs / crlFetchWorker), validated aggregation of revoked *)
(* serials (aggregateCRLs / aggregateCRLWorker / processCRL), the          *)
(* orchestration of the three stages in main, and IssuerCrlMap.Merge.      *)
(*                                                                         *)
(* Time is counted in hours.  A list of serials is kept as a sequence of   *)
(* blocks, one block [crl, n] per CRL that contributed n serials, so that  *)
(* lists longer than the accumulator's capacity of 128*1024 entries can be *)
(* represented; the length of a list is the sum of its blocks' n.          *)
(***************************************************************************)
EXTENDS Integers, Sequences, FiniteSets, TLC

\* Pool size, *ctconfig.NumThreads.
NumThreads == 2
\* How many termination signals the environment sends at most.
MaxSignals == 1

\* time.ParseDuration("336h")
allowableAgeOfLocalCRL == 336
\* make([]storage.Serial, 0, 128*1024)
AccumulatorCap == 128 * 1024

\* The issuers GetIssuerAndDatesFromCache lists, in the order it lists them.
issuerList == <<"X", "Y", "N">>
AllIssuers == {issuerList[k] : k \in 1..Len(issuerList)}
\* The issuers of the root program (rootprogram.MozIssuers).
ProgramIssuers == {"X", "Y"}
IsIssuerInProgram(issuer) == issuer \in ProgramIssuers

\* CRL distribution point URLs as they appear in the indexed metadata.
\* "%zz" is a string url.Parse rejects.
GoodUrls == {"A", "B"}
MalformedUrl == "%zz"
UrlStrings == GoodUrls \cup {MalformedUrl}
UrlParses(iUrl) == iUrl \in GoodUrls

Workers == 1..NumThreads

NoFile == [crl |-> "none"]
\* A file left at a temp path.  Nothing reads a temp file again once the
\* worker's step is over (the next download overwrites it), so only its
\* presence is kept.
LeftOver == [crl |-> "leftover"]
\* A downloaded file that processCRL rejected, where it lies at its temp
\* path.
Rejected == [crl |-> "rejected"]
Nil == "nil"

VARIABLES
    sigPending,   \* number of signals buffered in sigChan (capacity 1)
    sigSent,      \* signals sent by the environment so far
    mainPc,       \* where main (and the orchestrator it is in) stands
    caught,       \* the stages whose orchestrator took case <-sigChan
    meta,         \* issuer -> CRL URL strings of its indexed metadata
    files,        \* the CRL cache: path -> file or NoFile
    issuerChan,   \* discovery work queue
    fw,           \* findCrlWorker goroutines
    idResults,    \* discovery resultChan
    mergedCrls,   \* what identifyCrlsByIssuer returned
    crlChan,      \* retrieval work queue
    count,        \* the count downloadCRLs computed
    cw,           \* crlFetchWorker goroutines
    dlResults,    \* retrieval resultChan
    dlClosed,     \* retrieval resultChan has been closed
    crlPaths,     \* the channel main hands to aggregateCRLs: Nil or "resultChan"
    emitted,      \* issuer -> whether a result was sent for it, and its CrlPaths
    aw,           \* aggregateCRLWorker goroutines
    aggFinished,  \* issuers an aggregation worker has completed (progBar.IncrBy)
    enrollCalls,  \* issuer -> number of ae.issuers.Enroll calls
    stored,       \* issuer -> whether StoreKnownCertificateList got a list, and the list
    jsonWritten,  \* number of SaveIssuersList calls that wrote the document
    mergeRun,     \* the maps of a run of IssuerCrlMap.Merge on its own (MergeSpec)
    nameRun       \* a call of makeFilenameFromUrl on its own (FilenameSpec)

vars == <<sigPending, sigSent, mainPc, caught, meta, files, issuerChan, fw,
          idResults, mergedCrls, crlChan, count, cw, dlResults, dlClosed,
          crlPaths, emitted, aw, aggFinished, enrollCalls, stored, jsonWritten,
          mergeRun, nameRun>>

----------------------------------------------------------------------------
(* IssuerCrlMap: a Go map from issuer id to a set of URL strings, as a     *)
(* function whose domain is the set of keys present.                       *)

EmptyMap == [i \in {} |-> {}]
\* The nil map identifyCrlsByIssuer returns when it is cancelled.
NilMap == [i \in {"nil"} |-> {}]

\* self[issuer] = crls: other's entry replaces self's.
MergeEntryOverwrite(self, other, issuer) == other[issuer]

\* self[issuer] = selfCrls where selfCrls is self's entry (or a new empty
\* map) with every crl of other's entry set to true.
MergeEntry(self, other, issuer) ==
    (IF issuer \in DOMAIN self THEN self[issuer] ELSE {}) \cup
    (IF issuer \in DOMAIN other THEN other[issuer] ELSE {})

\* IssuerCrlMap.Merge: the value of self after self.Merge(other).
Merge(self, other) ==
    [issuer \in DOMAIN self \cup DOMAIN other |->
        IF issuer \in DOMAIN other THEN MergeEntry(self, other, issuer)
        ELSE self[issuer]]

\* The merge loop keeping only the part it received last.
MergeAllLastOnly(acc, parts) ==
    IF parts = <<>> THEN acc ELSE parts[Len(parts)]

RECURSIVE MergeAll(_, _)
\* for mapPart := range resultChan { mergedCrls.Merge(mapPart) }
MergeAll(acc, parts) ==
    IF parts = <<>> THEN acc
    ELSE MergeAll(Merge(acc, Head(parts)), Tail(parts))

----------------------------------------------------------------------------
(* The CRL cache and the CRLs found in it or served by the distribution    *)
(* points.                                                                 *)

\* <crlpath>/<issuer>/<filename>.tmp and <crlpath>/<issuer>/<filename>
tmpPath(issuer, crlUrl) == <<"tmp", issuer, crlUrl>>
finalPath(issuer, crlUrl) == <<"final", issuer, crlUrl>>
Paths == {"tmp", "final"} \X ProgramIssuers \X GoodUrls

\* A file holding a CRL: who signed it, whether its bytes parse and its
\* TBSCertList decodes, whether nextUpdate has passed, how many revoked
\* entries it lists, and the file's last-modified time.
CrlFile(crl, signer, form, expired, n, mtime) ==
    [crl |-> crl, signer |-> signer, form |-> form, expired |-> expired,
     n |-> n, mtime |-> mtime]

\* Some issuer other than the given one (the signer of a forged CRL).
OtherIssuer(issuer) == CHOOSE j \in AllIssuers : j # issuer

\* time.Now() when the final path's age is taken.  The run is short
\* against the hour, the unit of time here, so every worker reads the same
\* hour; last-modified times are hours before it.
Now == 0
TwoDaysAgo == Now - 48
AtTolerance == Now - allowableAgeOfLocalCRL
PastTolerance == Now - allowableAgeOfLocalCRL - 1

\* What a download of one of the issuer's URLs can put at the temp path
\* (DownloadFileSync gives the file the server's Last-Modified time).
RemoteFiles(issuer) ==
    { CrlFile("fresh3", issuer, "ok", FALSE, 3, TwoDaysAgo),
      CrlFile("old3", issuer, "ok", FALSE, 3, PastTolerance),
      CrlFile("empty0", issuer, "ok", FALSE, 0, TwoDaysAgo),
      CrlFile("huge", issuer, "ok", FALSE, 70000, TwoDaysAgo),
      CrlFile("forged2", OtherIssuer(issuer), "ok", FALSE, 2, TwoDaysAgo),
      CrlFile("garbage", issuer, "garbage", FALSE, 0, TwoDaysAgo) }

\* What an earlier run (or anything else) can have left at a final path.
CacheFiles(issuer) ==
    { NoFile,
      CrlFile("expired1", issuer, "ok", TRUE, 1, TwoDaysAgo),
      CrlFile("edge3", issuer, "ok", FALSE, 3, AtTolerance),
      CrlFile("old3", issuer, "ok", FALSE, 3, PastTolerance),
      CrlFile("forged2", OtherIssuer(issuer), "ok", FALSE, 2, TwoDaysAgo),
      CrlFile("undecodable", issuer, "undecodable", FALSE, 0, TwoDaysAgo) }

\* The indexed metadata the run may start from (meta.CRLs() per issuer).
MetaChoices ==
    { [i \in AllIssuers |-> IF i = "X" THEN {"A", "B"} ELSE IF i = "N" THEN {"A"} ELSE {}],
      [i \in AllIssuers |-> IF i = "X" THEN {"A"} ELSE IF i = "Y" THEN {"A"} ELSE {}],
      [i \in AllIssuers |-> IF i = "X" THEN {"B", MalformedUrl} ELSE IF i = "Y" THEN {MalformedUrl} ELSE {}],
      [i \in AllIssuers |-> {}] }

\* A list of serials: blocks [crl, n]; SerialLen is len(serials).
RECURSIVE SerialLen(_)
SerialLen(serials) ==
    IF serials = <<>> THEN 0 ELSE Head(serials).n + SerialLen(Tail(serials))

\* processCRL without its CheckCRLSignature step.
processCRLUnverified(file, issuer) ==
    IF file = NoFile THEN [serials |-> <<>>, err |-> "read"]
    ELSE IF file.form = "garbage" THEN [serials |-> <<>>, err |-> "parse"]
    ELSE IF file.form = "undecodable" THEN [serials |-> <<>>, err |-> "decode"]
    ELSE [serials |-> IF file.n = 0 THEN <<>> ELSE <<[crl |-> file.crl, n |-> file.n]>>,
          err |-> Nil]

\* processCRL that gives up on a CRL whose nextUpdate has passed.
processCRLRejectExpired(file, issuer) ==
    IF file = NoFile THEN [serials |-> <<>>, err |-> "read"]
    ELSE IF file.form = "garbage" THEN [serials |-> <<>>, err |-> "parse"]
    ELSE IF file.signer # issuer THEN [serials |-> <<>>, err |-> "signature"]
    ELSE IF file.expired THEN [serials |-> <<>>, err |-> "expired"]
    ELSE IF file.form = "undecodable" THEN [serials |-> <<>>, err |-> "decode"]
    ELSE [serials |-> IF file.n = 0 THEN <<>> ELSE <<[crl |-> file.crl, n |-> file.n]>>,
          err |-> Nil]

\* processCRL(aPath, aIssuerCert): the serials and the error it returns for
\* the file found at aPath, checked against the certificate of issuer.
\* Expiry (crl.HasExpired) only logs a warning.
processCRL(file, issuer) ==
    IF file = NoFile THEN [serials |-> <<>>, err |-> "read"]
    ELSE IF file.form = "garbage" THEN [serials |-> <<>>, err |-> "parse"]
    ELSE IF file.signer # issuer THEN [serials |-> <<>>, err |-> "signature"]
    ELSE IF file.form = "undecodable" THEN [serials |-> <<>>, err |-> "decode"]
    ELSE [serials |-> IF file.n = 0 THEN <<>> ELSE <<[crl |-> file.crl, n |-> file.n]>>,
          err |-> Nil]

----------------------------------------------------------------------------
(* Go slices of serials: len, cap, copy and append.                        *)

Min(a, b) == IF a < b THEN a ELSE b

RECURSIVE TakeSerials(_, _)
\* The first k serials of s.
TakeSerials(s, k) ==
    IF k = 0 \/ s = <<>> THEN <<>>
    ELSE IF Head(s).n <= k
         THEN <<Head(s)>> \o TakeSerials(Tail(s), k - Head(s).n)
         ELSE <<[crl |-> Head(s).crl, n |-> k]>>

RECURSIVE DropSerials(_, _)
\* s without its first k serials.
DropSerials(s, k) ==
    IF k = 0 \/ s = <<>> THEN s
    ELSE IF Head(s).n <= k
         THEN DropSerials(Tail(s), k - Head(s).n)
         ELSE <<[crl |-> Head(s).crl, n |-> Head(s).n - k]>> \o Tail(s)

\* copy(dst, src): min(len(dst), len(src)) elements of src overwrite the
\* start of dst; the length of dst does not change.
GoCopy(dst, src) ==
    LET k == Min(SerialLen(dst), SerialLen(src))
    IN  TakeSerials(src, k) \o DropSerials(dst, k)

\* append(s.serials, more...): reallocates only when the capacity is short.
GoAppend(s, more) ==
    LET newLen == SerialLen(s.serials) + SerialLen(more)
    IN  [serials |-> s.serials \o more,
         cap |-> IF newLen <= s.cap THEN s.cap ELSE newLen]

\* make([]storage.Serial, 0, capacity)
MakeSerials(capacity) == [serials |-> <<>>, cap |-> capacity]

\* Lines 266-273 of aggregateCRLWorker: make room when the capacity is
\* short, append the CRL's serials, add to serialCount.
Accumulate(acc, revokedSerials) ==
    LET revokedCount == SerialLen(revokedSerials)
        grown == IF acc.cap < revokedCount + acc.serialCount
                 THEN LET newSerials == MakeSerials(acc.serialCount + revokedCount)
                      IN  [serials |-> GoCopy(newSerials.serials, acc.serials),
                           cap |-> newSerials.cap]
                 ELSE [serials |-> acc.serials, cap |-> acc.cap]
        appended == GoAppend(grown, revokedSerials)
    IN  [serials |-> appended.serials, cap |-> appended.cap,
         serialCount |-> acc.serialCount + revokedCount]

----------------------------------------------------------------------------
(* makeFilenameFromUrl.  Strings are sequences of characters.              *)

\* The longest URL path a call is tried on.
MaxPathLen == 5

\* The characters the URLs are made of: letters of both cases, the dot,
\* the path separator and a character illegalPath removes.
UrlChars == {"/", ".", "c", "r", "l", "C", "_"}
\* The characters [[:alnum:]~\-./] among them.
LegalChars == {"/", ".", "c", "r", "l", "C", "~", "-"}

\* Host names, and the paths url.Parse yields for an absolute URL: empty,
\* or starting with the separator.
UrlHosts == {<<"c">>, <<"C", "_", "r">>}
UrlPaths ==
    {<<>>} \cup
    UNION { { <<"/">> \o rest : rest \in [1..n -> UrlChars] } : n \in 0..(MaxPathLen - 1) }
CrlUrls == [Host : UrlHosts, Path : UrlPaths]

\* crlUrl.Hostname()
Hostname(crlUrl) == crlUrl.Host

RECURSIVE StripTrailingSlashes(_)
StripTrailingSlashes(path) ==
    IF path # <<>> /\ path[Len(path)] = "/"
    THEN StripTrailingSlashes(SubSeq(path, 1, Len(path) - 1))
    ELSE path

\* The index of the last separator of path, 0 when it has none.
LastSlash(path) ==
    IF \E k \in 1..Len(path) : path[k] = "/"
    THEN CHOOSE k \in 1..Len(path) :
            path[k] = "/" /\ \A j \in (k + 1)..Len(path) : path[j] # "/"
    ELSE 0

\* path.Base: "." for the empty path, "/" for a path of separators only,
\* else the last element without trailing separators.
Base(path) ==
    IF path = <<>> THEN <<".">>
    ELSE LET stripped == StripTrailingSlashes(path)
             last == SubSeq(stripped, LastSlash(stripped) + 1, Len(stripped))
         IN  IF last = <<>> THEN <<"/">> ELSE last

\* strings.ToLower
ToLower(str) == [k \in 1..Len(str) |-> IF str[k] = "C" THEN "c" ELSE str[k]]

IsLegalChar(c) == c \in LegalChars
\* illegalPath.ReplaceAllString(str, "")
RemoveIllegal(str) == SelectSeq(str, IsLegalChar)

\* strings.TrimSuffix
TrimSuffix(str, suffix) ==
    IF Len(str) >= Len(suffix)
       /\ SubSeq(str, Len(str) - Len(suffix) + 1, Len(str)) = suffix
    THEN SubSeq(str, 1, Len(str) - Len(suffix))
    ELSE str

DotCrl == <<".", "c", "r", "l">>

\* hex.EncodeToString(hash[:8]) of the SHA-256 of crlUrl.String(): sixteen
\* hexadecimal digits that the URL determines, kept as a token.
Sha256Hex8(crlUrl) == [sha256 |-> crlUrl]

\* makeFilenameFromUrl(crlUrl): the name is stem, "-", hash, ext in a row.
makeFilenameFromUrl(crlUrl) ==
    LET filename == Hostname(crlUrl) \o <<"-">> \o Base(crlUrl.Path)
    IN  [stem |-> TrimSuffix(RemoveIllegal(ToLower(filename)), DotCrl),
         hash |-> Sha256Hex8(crlUrl),
         ext |-> DotCrl]

\* No call of makeFilenameFromUrl on its own is under way.
NoNameRun ==
    LET noUrl == [Host |-> <<>>, Path |-> <<>>]
    IN  [step |-> "none", crlUrl |-> noUrl,
         filename |-> [stem |-> <<>>, hash |-> Sha256Hex8(noUrl), ext |-> <<>>]]

----------------------------------------------------------------------------
(* The state after main has set up the engine (lines 487-540).             *)

\* No result was sent for the issuer; no list was stored for it.
NotSent == [sent |-> FALSE, paths |-> <<>>]
NotStored == [saved |-> FALSE, serials |-> <<>>]

\* No run of Merge on its own is under way.
NoMergeRun == [step |-> "none", a |-> NilMap, b |-> NilMap,
               ab |-> NilMap, abb |-> NilMap, ba |-> NilMap]

\* The locals of a goroutine that is between two work items, or gone, hold
\* nothing the program still reads; they are kept at these values.
IdleFind == [pc |-> "idle", issuerCrls |-> EmptyMap]
IdleFetch == [pc |-> "idle", issuer |-> Nil, urls |-> {}, crlUrl |-> Nil, paths |-> <<>>]
IdleAgg == [pc |-> "idle", issuer |-> Nil, paths |-> <<>>, issuerEnrolled |-> FALSE,
            serials |-> <<>>, cap |-> 0, serialCount |-> 0]

\* The cache holds files only at final paths of URLs the metadata knows.
InitialCaches ==
    LET Units == ProgramIssuers \X GoodUrls
        AnyCached == UNION {CacheFiles(i) : i \in ProgramIssuers}
        Choices == { c \in [Units -> AnyCached] :
                        \A k \in Units :
                            /\ c[k] \in CacheFiles(k[1])
                            /\ (k[2] \notin meta[k[1]] => c[k] = NoFile) }
    IN  { [p \in Paths |-> IF p[1] = "final" THEN c[<<p[2], p[3]>>] ELSE NoFile] :
            c \in Choices }

Init ==
    /\ sigPending = 0
    /\ sigSent = 0
    /\ mainPc = "main"
    /\ caught = {}
    /\ meta \in MetaChoices
    /\ files \in InitialCaches
    /\ issuerChan = <<>>
    /\ fw = [w \in Workers |-> IdleFind]
    /\ idResults = <<>>
    /\ mergedCrls = NilMap
    /\ crlChan = {}
    /\ count = 0
    /\ cw = [w \in Workers |-> IdleFetch]
    /\ dlResults = <<>>
    /\ dlClosed = FALSE
    /\ crlPaths = Nil
    /\ emitted = [i \in ProgramIssuers |-> NotSent]
    /\ aw = [w \in Workers |-> IdleAgg]
    /\ aggFinished = {}
    /\ enrollCalls = [i \in ProgramIssuers |-> 0]
    /\ stored = [i \in ProgramIssuers |-> NotStored]
    /\ jsonWritten = 0
    /\ mergeRun = NoMergeRun
    /\ nameRun = NoNameRun

\* The process is alive: main has not returned and glog.Fatal was not called.
Running == mainPc \notin {"exit", "fatal"}

----------------------------------------------------------------------------
(* The environment: the operating system's signals.                        *)

\* SIGTERM or SIGINT arrives; signal.Notify delivers it to sigChan
\* (make(chan os.Signal, 1)) without blocking, dropping it when the buffer
\* is full.
Signal ==
    /\ Running
    /\ sigSent < MaxSignals
    /\ sigSent' = sigSent + 1
    /\ sigPending' = 1
    /\ UNCHANGED <<mainPc, caught, meta, files, issuerChan, fw,
                   idResults, mergedCrls, crlChan, count, cw, dlResults, dlClosed,
                   crlPaths, emitted, aw, aggFinished, enrollCalls, stored, jsonWritten,
                   mergeRun, nameRun>>

----------------------------------------------------------------------------
(* Discovery: identifyCrlsByIssuer and findCrlWorker.                      *)

\* identifyCrlsByIssuer up to the select: queue the issuers of the root
\* program, close issuerChan, start the workers.
StartIdentify ==
    /\ mainPc = "main"
    /\ issuerChan' = SelectSeq(issuerList, IsIssuerInProgram)
    /\ fw' = [w \in Workers |-> [pc |-> "range", issuerCrls |-> EmptyMap]]
    /\ mainPc' = "identify"
    /\ UNCHANGED <<sigPending, sigSent, caught, meta, files,
                   idResults, mergedCrls, crlChan, count, cw, dlResults, dlClosed,
                   crlPaths, emitted, aw, aggFinished, enrollCalls, stored, jsonWritten,
                   mergeRun, nameRun>>

\* findCrls that leaves an issuer without CRLs out of the map.
findCrlsSkipEmpty(issuerCrls, issuer, crlSet) ==
    LET crls == IF issuer \in DOMAIN issuerCrls THEN issuerCrls[issuer] ELSE {}
    IN  IF crlSet = {} THEN issuerCrls
        ELSE [i \in DOMAIN issuerCrls \cup {issuer} |->
                IF i = issuer THEN crls \cup crlSet ELSE issuerCrls[i]]

\* The default branch of findCrlWorker's select for one issuer: the URLs
\* of meta.CRLs() are added to the worker's entry for the issuer, and the
\* entry is stored even when it is empty.
findCrls(issuerCrls, issuer, crlSet) ==
    LET crls == IF issuer \in DOMAIN issuerCrls THEN issuerCrls[issuer] ELSE {}
    IN  [i \in DOMAIN issuerCrls \cup {issuer} |->
            IF i = issuer THEN crls \cup crlSet ELSE issuerCrls[i]]

\* One iteration of findCrlWorker's loop: receive an issuer, then either
\* receive from quitChan (possible only while the orchestrator is blocked
\* sending on it) and return, or process the issuer.
FindCrl(w) ==
    /\ Running
    /\ fw[w].pc = "range"
    /\ issuerChan # <<>>
    /\ issuerChan' = Tail(issuerChan)
    /\ IF mainPc = "identifyQuit"
       THEN /\ fw' = [fw EXCEPT ![w] = [IdleFind EXCEPT !.pc = "quit"]]
            /\ mainPc' = "exit"
       ELSE /\ fw' = [fw EXCEPT ![w].issuerCrls =
                        findCrls(@, Head(issuerChan), meta[Head(issuerChan)])]
            /\ UNCHANGED mainPc
    /\ UNCHANGED <<sigPending, sigSent, caught, meta, files,
                   idResults, mergedCrls, crlChan, count, cw, dlResults, dlClosed,
                   crlPaths, emitted, aw, aggFinished, enrollCalls, stored, jsonWritten,
                   mergeRun, nameRun>>

\* issuerChan is closed and drained: resultChan <- issuerCrls, return.
FindCrlSend(w) ==
    /\ Running
    /\ fw[w].pc = "range"
    /\ issuerChan = <<>>
    /\ Len(idResults) < NumThreads
    /\ idResults' = Append(idResults, fw[w].issuerCrls)
    /\ fw' = [fw EXCEPT ![w] = [IdleFind EXCEPT !.pc = "done"]]
    /\ UNCHANGED <<sigPending, sigSent, mainPc, caught, meta, files, issuerChan,
                   mergedCrls, crlChan, count, cw, dlResults, dlClosed,
                   crlPaths, emitted, aw, aggFinished, enrollCalls, stored, jsonWritten,
                   mergeRun, nameRun>>

\* case <-sigChan of identifyCrlsByIssuer: the orchestrator goes on to
\* quitChan <- struct{}{}, an unbuffered send.
IdentifyCatchSignal ==
    /\ mainPc = "identify"
    /\ sigPending = 1
    /\ sigPending' = 0
    /\ caught' = caught \cup {"identify"}
    /\ mainPc' = "identifyQuit"
    /\ UNCHANGED <<sigSent, meta, files, issuerChan, fw,
                   idResults, mergedCrls, crlChan, count, cw, dlResults, dlClosed,
                   crlPaths, emitted, aw, aggFinished, enrollCalls, stored, jsonWritten,
                   mergeRun, nameRun>>

\* case <-doneChan of identifyCrlsByIssuer (every worker has called
\* wg.Done): close resultChan, merge the parts, return the merged map.
IdentifyDone ==
    /\ mainPc = "identify"
    /\ \A w \in Workers : fw[w].pc \in {"done", "quit"}
    /\ mergedCrls' = MergeAll(EmptyMap, idResults)
    /\ idResults' = <<>>
    /\ mainPc' = "identified"
    /\ UNCHANGED <<sigPending, sigSent, caught, meta, files, issuerChan, fw,
                   crlChan, count, cw, dlResults, dlClosed,
                   crlPaths, emitted, aw, aggFinished, enrollCalls, stored, jsonWritten,
                   mergeRun, nameRun>>

----------------------------------------------------------------------------
(* Retrieval: downloadCRLs and crlFetchWorker.                             *)

\* The work items downloadCRLs queues: per issuer of the map the URLs
\* that parse, when there is at least one.  Go iterates both maps in an
\* unspecified order, so the queue and each Urls slice are kept as sets
\* and the receivers take any element.
IssuerCrlUrlsOf(issuerToUrls) ==
    { t \in { [Issuer |-> issuer,
               Urls |-> {iUrl \in issuerToUrls[issuer] : UrlParses(iUrl)}] :
              issuer \in DOMAIN issuerToUrls } :
        t.Urls # {} }

\* main after identifyCrlsByIssuer returned a map, and downloadCRLs up to
\* its select: queue the work, close crlChan, make resultChan with room
\* for count results, start the workers.
StartDownload ==
    /\ mainPc = "identified"
    /\ crlChan' = IssuerCrlUrlsOf(mergedCrls)
    /\ count' = Cardinality(IssuerCrlUrlsOf(mergedCrls))
    /\ cw' = [w \in Workers |-> [IdleFetch EXCEPT !.pc = "range"]]
    /\ mainPc' = "download"
    /\ UNCHANGED <<sigPending, sigSent, caught, meta, files, issuerChan, fw,
                   idResults, mergedCrls, dlResults, dlClosed,
                   crlPaths, emitted, aw, aggFinished, enrollCalls, stored, jsonWritten,
                   mergeRun, nameRun>>

\* A receive that leaves the work item in crlsChan for another worker.
FetchTakeShared(w) ==
    /\ Running
    /\ cw[w].pc = "range"
    /\ \E tuple \in crlChan :
        cw' = [cw EXCEPT ![w] = [pc |-> "urls", issuer |-> tuple.Issuer,
                                 urls |-> tuple.Urls, crlUrl |-> Nil,
                                 paths |-> <<>>]]
    /\ UNCHANGED <<sigPending, sigSent, mainPc, caught, meta, files, issuerChan, fw,
                   idResults, mergedCrls, crlChan, count, dlResults, dlClosed,
                   crlPaths, emitted, aw, aggFinished, enrollCalls, stored, jsonWritten,
                   mergeRun, nameRun>>

\* for tuple := range crlsChan: receive a work item.
FetchTake(w) ==
    /\ Running
    /\ cw[w].pc = "range"
    /\ \E tuple \in crlChan :
        /\ crlChan' = crlChan \ {tuple}
        /\ cw' = [cw EXCEPT ![w] = [pc |-> "urls", issuer |-> tuple.Issuer,
                                    urls |-> tuple.Urls, crlUrl |-> Nil,
                                    paths |-> <<>>]]
    /\ UNCHANGED <<sigPending, sigSent, mainPc, caught, meta, files, issuerChan, fw,
                   idResults, mergedCrls, count, dlResults, dlClosed,
                   crlPaths, emitted, aw, aggFinished, enrollCalls, stored, jsonWritten,
                   mergeRun, nameRun>>

\* crlsChan is closed and drained: the worker returns.
FetchExit(w) ==
    /\ Running
    /\ cw[w].pc = "range"
    /\ crlChan = {}
    /\ cw' = [cw EXCEPT ![w].pc = "done"]
    /\ UNCHANGED <<sigPending, sigSent, mainPc, caught, meta, files, issuerChan, fw,
                   idResults, mergedCrls, crlChan, count, dlResults, dlClosed,
                   crlPaths, emitted, aw, aggFinished, enrollCalls, stored, jsonWritten,
                   mergeRun, nameRun>>

\* downloadCRLs returning resultChan although it was cancelled.
CancelledResultChanLeaked == "resultChan"

\* What downloadCRLs returns as its channel once it has sent on quitChan.
CancelledResultChan == Nil

\* os.MkdirAll fails only where the issuer's directory does not exist yet,
\* so where no file lies in it.
MkdirCanFail(issuer) == \A p \in Paths : p[2] = issuer => files[p] = NoFile

\* The top of the loop over tuple.Urls: the select on quitChan (a receive
\* is possible only while downloadCRLs is blocked sending), then MkdirAll,
\* then the call of DownloadFileSync.
FetchBegin(w) ==
    /\ Running
    /\ cw[w].pc = "urls"
    /\ cw[w].urls # {}
    /\ IF mainPc = "downloadQuit"
       THEN /\ cw' = [cw EXCEPT ![w] = [IdleFetch EXCEPT !.pc = "quit"]]
            /\ mainPc' = "downloaded"
            /\ crlPaths' = CancelledResultChan
       ELSE /\ \E crlUrl \in cw[w].urls :
                \/ cw' = [cw EXCEPT ![w].pc = "download", ![w].crlUrl = crlUrl,
                                    ![w].urls = @ \ {crlUrl}]
                \/ /\ MkdirCanFail(cw[w].issuer)
                   /\ cw' = [cw EXCEPT ![w].urls = @ \ {crlUrl}]
            /\ UNCHANGED <<mainPc, crlPaths>>
    /\ UNCHANGED <<sigPending, sigSent, caught, meta, files, issuerChan, fw,
                   idResults, mergedCrls, crlChan, count, dlResults, dlClosed,
                   emitted, aw, aggFinished, enrollCalls, stored, jsonWritten,
                   mergeRun, nameRun>>

\* Lines 143-161 without the validation of the downloaded file.
AfterDownloadUnvalidated(fs, issuer, crlUrl, downloaded, renameOk) ==
    IF downloaded = NoFile THEN fs
    ELSE IF ~renameOk
         THEN [fs EXCEPT ![tmpPath(issuer, crlUrl)] = LeftOver]
         ELSE [fs EXCEPT ![tmpPath(issuer, crlUrl)] = NoFile,
                         ![finalPath(issuer, crlUrl)] = downloaded]

\* Lines 143-161: the cache after DownloadFileSync returned.  downloaded
\* is the file it wrote to the temp path, or NoFile when it failed; a file
\* that processCRL accepts is renamed to the final path unless os.Rename
\* fails.
AfterDownload(fs, issuer, crlUrl, downloaded, renameOk) ==
    IF downloaded = NoFile THEN fs
    ELSE IF processCRL(downloaded, issuer).err # Nil
         THEN [fs EXCEPT ![tmpPath(issuer, crlUrl)] = Rejected]
    ELSE IF ~renameOk
         THEN [fs EXCEPT ![tmpPath(issuer, crlUrl)] = LeftOver]
         ELSE [fs EXCEPT ![tmpPath(issuer, crlUrl)] = NoFile,
                         ![finalPath(issuer, crlUrl)] = downloaded]

\* The comparison with the boundary excluded.
TooOldAtBoundary(age) == age >= allowableAgeOfLocalCRL

\* age > allowableAgeOfLocalCRL
TooOld(age) == age > allowableAgeOfLocalCRL

\* Lines 163-177: GetSizeAndDateOfFile succeeds and the file is not too old.
Acceptable(fs, path, clock) ==
    /\ fs[path] # NoFile
    /\ ~TooOld(clock - fs[path].mtime)

\* DownloadFileSync returns; validate, rename, check the final path's age,
\* append the final path when it is acceptable.
FetchFinish(w) ==
    /\ Running
    /\ cw[w].pc = "download"
    /\ \E downloaded \in RemoteFiles(cw[w].issuer) \cup {NoFile}, renameOk \in BOOLEAN :
        LET issuer == cw[w].issuer
            crlUrl == cw[w].crlUrl
            fs == AfterDownload(files, issuer, crlUrl, downloaded, renameOk)
        IN  /\ files' = fs
            /\ cw' = [cw EXCEPT ![w].pc = "urls",
                                ![w].crlUrl = Nil,
                                ![w].paths =
                                    IF Acceptable(fs, finalPath(issuer, crlUrl), Now)
                                    THEN Append(@, finalPath(issuer, crlUrl))
                                    ELSE @]
    /\ UNCHANGED <<sigPending, sigSent, mainPc, caught, meta, issuerChan, fw,
                   idResults, mergedCrls, crlChan, count, dlResults, dlClosed,
                   crlPaths, emitted, aw, aggFinished, enrollCalls, stored, jsonWritten,
                   mergeRun, nameRun>>

\* Every URL of the tuple is done: resultChan <- IssuerCrlPaths{...}.
FetchEmit(w) ==
    /\ Running
    /\ cw[w].pc = "urls"
    /\ cw[w].urls = {}
    /\ Len(dlResults) < count
    /\ dlResults' = Append(dlResults, [Issuer |-> cw[w].issuer, CrlPaths |-> cw[w].paths])
    /\ emitted' = [emitted EXCEPT ![cw[w].issuer] = [sent |-> TRUE, paths |-> cw[w].paths]]
    /\ cw' = [cw EXCEPT ![w] = [IdleFetch EXCEPT !.pc = "range"]]
    /\ UNCHANGED <<sigPending, sigSent, mainPc, caught, meta, files, issuerChan, fw,
                   idResults, mergedCrls, crlChan, count, dlClosed,
                   crlPaths, aw, aggFinished, enrollCalls, stored, jsonWritten,
                   mergeRun, nameRun>>

\* case <-sigChan of downloadCRLs.
DownloadCatchSignal ==
    /\ mainPc = "download"
    /\ sigPending = 1
    /\ sigPending' = 0
    /\ caught' = caught \cup {"download"}
    /\ mainPc' = "downloadQuit"
    /\ UNCHANGED <<sigSent, meta, files, issuerChan, fw,
                   idResults, mergedCrls, crlChan, count, cw, dlResults, dlClosed,
                   crlPaths, emitted, aw, aggFinished, enrollCalls, stored, jsonWritten,
                   mergeRun, nameRun>>

\* downloadCRLs returning resultChan without closing it.
DownloadDoneNotClosed ==
    /\ mainPc = "download"
    /\ \A w \in Workers : cw[w].pc \in {"done", "quit"}
    /\ crlPaths' = "resultChan"
    /\ mainPc' = "downloaded"
    /\ UNCHANGED <<sigPending, sigSent, caught, meta, files, issuerChan, fw,
                   idResults, mergedCrls, crlChan, count, cw, dlResults, dlClosed,
                   emitted, aw, aggFinished, enrollCalls, stored, jsonWritten,
                   mergeRun, nameRun>>

\* case <-doneChan of downloadCRLs: close resultChan and return it.
DownloadDone ==
    /\ mainPc = "download"
    /\ \A w \in Workers : cw[w].pc \in {"done", "quit"}
    /\ dlClosed' = TRUE
    /\ crlPaths' = "resultChan"
    /\ mainPc' = "downloaded"
    /\ UNCHANGED <<sigPending, sigSent, caught, meta, files, issuerChan, fw,
                   idResults, mergedCrls, crlChan, count, cw, dlResults,
                   emitted, aw, aggFinished, enrollCalls, stored, jsonWritten,
                   mergeRun, nameRun>>

----------------------------------------------------------------------------
(* Aggregation: aggregateCRLs, aggregateCRLWorker and the end of main.     *)

\* main calls aggregateCRLs with what downloadCRLs returned; aggregateCRLs
\* starts the workers and waits in its select.
StartAggregate ==
    /\ mainPc = "downloaded"
    /\ aw' = [w \in Workers |-> [IdleAgg EXCEPT !.pc = "range"]]
    /\ mainPc' = "aggregate"
    /\ UNCHANGED <<sigPending, sigSent, caught, meta, files, issuerChan, fw,
                   idResults, mergedCrls, crlChan, count, cw, dlResults, dlClosed,
                   crlPaths, emitted, aggFinished, enrollCalls, stored, jsonWritten,
                   mergeRun, nameRun>>

\* for tuple := range workChan: receive a tuple and set up the locals of
\* lines 232-242.  A receive from a nil channel blocks forever.
AggTake(w) ==
    /\ Running
    /\ aw[w].pc = "range"
    /\ crlPaths # Nil
    /\ dlResults # <<>>
    /\ dlResults' = Tail(dlResults)
    /\ aw' = [aw EXCEPT ![w] = [pc |-> "paths", issuer |-> Head(dlResults).Issuer,
                                paths |-> Head(dlResults).CrlPaths,
                                issuerEnrolled |-> FALSE,
                                serials |-> MakeSerials(AccumulatorCap).serials,
                                cap |-> MakeSerials(AccumulatorCap).cap,
                                serialCount |-> 0]]
    /\ UNCHANGED <<sigPending, sigSent, mainPc, caught, meta, files, issuerChan, fw,
                   idResults, mergedCrls, crlChan, count, cw, dlClosed,
                   crlPaths, emitted, aggFinished, enrollCalls, stored, jsonWritten,
                   mergeRun, nameRun>>

\* workChan is closed and drained: the worker returns.
AggExit(w) ==
    /\ Running
    /\ aw[w].pc = "range"
    /\ crlPaths # Nil
    /\ dlResults = <<>>
    /\ dlClosed
    /\ aw' = [aw EXCEPT ![w].pc = "done"]
    /\ UNCHANGED <<sigPending, sigSent, mainPc, caught, meta, files, issuerChan, fw,
                   idResults, mergedCrls, crlChan, count, cw, dlResults, dlClosed,
                   crlPaths, emitted, aggFinished, enrollCalls, stored, jsonWritten,
                   mergeRun, nameRun>>

\* Enroll called for every CRL that yields serials.
CallsEnrollAlways(issuerEnrolled) == TRUE

\* if !issuerEnrolled { issuerEnrolled = true; ae.issuers.Enroll(...) }
CallsEnroll(issuerEnrolled) == ~issuerEnrolled

\* One iteration of the loop over tuple.CrlPaths: the select on quitChan
\* (a receive is possible only while aggregateCRLs is blocked sending),
\* else processCRL and lines 250-273.
AggProcess(w) ==
    /\ Running
    /\ aw[w].pc = "paths"
    /\ aw[w].paths # <<>>
    /\ IF mainPc = "aggregateQuit"
       THEN /\ aw' = [aw EXCEPT ![w] = [IdleAgg EXCEPT !.pc = "quit"]]
            /\ mainPc' = "aggregated"
            /\ UNCHANGED enrollCalls
       ELSE LET res == processCRL(files[Head(aw[w].paths)], aw[w].issuer)
                acc == Accumulate([serials |-> aw[w].serials, cap |-> aw[w].cap,
                                   serialCount |-> aw[w].serialCount], res.serials)
            IN  /\ UNCHANGED mainPc
                /\ IF res.err # Nil \/ SerialLen(res.serials) = 0
                   THEN /\ aw' = [aw EXCEPT ![w].paths = Tail(@)]
                        /\ UNCHANGED enrollCalls
                   ELSE /\ aw' = [aw EXCEPT ![w].paths = Tail(@),
                                            ![w].issuerEnrolled = TRUE,
                                            ![w].serials = acc.serials,
                                            ![w].cap = acc.cap,
                                            ![w].serialCount = acc.serialCount]
                        /\ enrollCalls' =
                             IF CallsEnroll(aw[w].issuerEnrolled)
                             THEN [enrollCalls EXCEPT ![aw[w].issuer] = @ + 1]
                             ELSE enrollCalls
    /\ UNCHANGED <<sigPending, sigSent, caught, meta, files, issuerChan, fw,
                   idResults, mergedCrls, crlChan, count, cw, dlResults, dlClosed,
                   crlPaths, emitted, aggFinished, stored, jsonWritten,
                   mergeRun, nameRun>>

\* The list stored whether or not the issuer was enrolled.
StoresListAlways(issuerEnrolled) == TRUE

\* if issuerEnrolled { StoreKnownCertificateList(...) }
StoresList(issuerEnrolled) == issuerEnrolled

\* Lines 277-286, after the last CRL path of the tuple: an enrolled
\* issuer's list is stored (a failure of the store is fatal), then the
\* progress bar is advanced.
AggStore(w) ==
    /\ Running
    /\ aw[w].pc = "paths"
    /\ aw[w].paths = <<>>
    /\ \/ /\ StoresList(aw[w].issuerEnrolled)
          /\ stored' = [stored EXCEPT ![aw[w].issuer] =
                            [saved |-> TRUE, serials |-> aw[w].serials]]
          /\ aggFinished' = aggFinished \cup {aw[w].issuer}
          /\ aw' = [aw EXCEPT ![w] = [IdleAgg EXCEPT !.pc = "range"]]
          /\ UNCHANGED mainPc
       \/ /\ StoresList(aw[w].issuerEnrolled)
          /\ mainPc' = "fatal"
          /\ UNCHANGED <<stored, aggFinished, aw>>
       \/ /\ ~StoresList(aw[w].issuerEnrolled)
          /\ aggFinished' = aggFinished \cup {aw[w].issuer}
          /\ aw' = [aw EXCEPT ![w] = [IdleAgg EXCEPT !.pc = "range"]]
          /\ UNCHANGED <<stored, mainPc>>
    /\ UNCHANGED <<sigPending, sigSent, caught, meta, files, issuerChan, fw,
                   idResults, mergedCrls, crlChan, count, cw, dlResults, dlClosed,
                   crlPaths, emitted, enrollCalls, jsonWritten,
                   mergeRun, nameRun>>

\* case <-sigChan of aggregateCRLs.
AggregateCatchSignal ==
    /\ mainPc = "aggregate"
    /\ sigPending = 1
    /\ sigPending' = 0
    /\ caught' = caught \cup {"aggregate"}
    /\ mainPc' = "aggregateQuit"
    /\ UNCHANGED <<sigSent, meta, files, issuerChan, fw,
                   idResults, mergedCrls, crlChan, count, cw, dlResults, dlClosed,
                   crlPaths, emitted, aw, aggFinished, enrollCalls, stored, jsonWritten,
                   mergeRun, nameRun>>

\* case <-doneChan of aggregateCRLs: every worker has called wg.Done.
AggregateDone ==
    /\ mainPc = "aggregate"
    /\ \A w \in Workers : aw[w].pc \in {"done", "quit"}
    /\ mainPc' = "aggregated"
    /\ UNCHANGED <<sigPending, sigSent, caught, meta, files, issuerChan, fw,
                   idResults, mergedCrls, crlChan, count, cw, dlResults, dlClosed,
                   crlPaths, emitted, aw, aggFinished, enrollCalls, stored, jsonWritten,
                   mergeRun, nameRun>>

\* main after aggregateCRLs returned: SaveIssuersList writes the enrolled
\* issuers' JSON document (a failure is fatal), and main returns.
SaveIssuersList ==
    /\ mainPc = "aggregated"
    /\ \/ /\ jsonWritten' = jsonWritten + 1
          /\ mainPc' = "exit"
       \/ /\ mainPc' = "fatal"
          /\ UNCHANGED jsonWritten
    /\ UNCHANGED <<sigPending, sigSent, caught, meta, files, issuerChan, fw,
                   idResults, mergedCrls, crlChan, count, cw, dlResults, dlClosed,
                   crlPaths, emitted, aw, aggFinished, enrollCalls, stored,
                   mergeRun, nameRun>>

----------------------------------------------------------------------------

Next ==
    \/ Signal
    \/ StartIdentify
    \/ \E w \in Workers : FindCrl(w)
    \/ \E w \in Workers : FindCrlSend(w)
    \/ IdentifyCatchSignal
    \/ IdentifyDone
    \/ StartDownload
    \/ \E w \in Workers : FetchTake(w)
    \/ \E w \in Workers : FetchExit(w)
    \/ \E w \in Workers : FetchBegin(w)
    \/ \E w \in Workers : FetchFinish(w)
    \/ \E w \in Workers : FetchEmit(w)
    \/ DownloadCatchSignal
    \/ DownloadDone
    \/ StartAggregate
    \/ \E w \in Workers : AggTake(w)
    \/ \E w \in Workers : AggExit(w)
    \/ \E w \in Workers : AggProcess(w)
    \/ \E w \in Workers : AggStore(w)
    \/ AggregateCatchSignal
    \/ AggregateDone
    \/ SaveIssuersList

Spec == Init /\ [][Next]_vars

\* The goroutines, for the fairness of Go's scheduler: a goroutine that can
\* run is run.
mainRoutine ==
    \/ StartIdentify \/ IdentifyCatchSignal \/ IdentifyDone
    \/ StartDownload \/ DownloadCatchSignal \/ DownloadDone
    \/ StartAggregate \/ AggregateCatchSignal \/ AggregateDone
    \/ SaveIssuersList
findCrlWorker(w) == FindCrl(w) \/ FindCrlSend(w)
crlFetchWorker(w) ==
    FetchTake(w) \/ FetchExit(w) \/ FetchBegin(w) \/ FetchFinish(w) \/ FetchEmit(w)
aggregateCRLWorker(w) == AggTake(w) \/ AggExit(w) \/ AggProcess(w) \/ AggStore(w)

\* The pipeline under a fair scheduler, with returning downloads and file
\* operations; the environment need not send a signal.
FairSpec ==
    /\ Spec
    /\ WF_vars(mainRoutine)
    /\ \A w \in Workers :
          /\ WF_vars(findCrlWorker(w))
          /\ WF_vars(crlFetchWorker(w))
          /\ WF_vars(aggregateCRLWorker(w))

----------------------------------------------------------------------------
(* IssuerCrlMap.Merge on its own, on any two maps.                         *)

\* Every IssuerCrlMap over the issuers and URLs of the model.
AllMaps == UNION { [D -> SUBSET GoodUrls] : D \in SUBSET ProgramIssuers }

MergeInit ==
    /\ sigPending = 0
    /\ sigSent = 0
    /\ mainPc = "merge"
    /\ caught = {}
    /\ meta = [i \in AllIssuers |-> {}]
    /\ files = [p \in Paths |-> NoFile]
    /\ issuerChan = <<>>
    /\ fw = [w \in Workers |-> IdleFind]
    /\ idResults = <<>>
    /\ mergedCrls = NilMap
    /\ crlChan = {}
    /\ count = 0
    /\ cw = [w \in Workers |-> IdleFetch]
    /\ dlResults = <<>>
    /\ dlClosed = FALSE
    /\ crlPaths = Nil
    /\ emitted = [i \in ProgramIssuers |-> NotSent]
    /\ aw = [w \in Workers |-> IdleAgg]
    /\ aggFinished = {}
    /\ enrollCalls = [i \in ProgramIssuers |-> 0]
    /\ stored = [i \in ProgramIssuers |-> NotStored]
    /\ jsonWritten = 0
    /\ mergeRun \in { [step |-> "start", a |-> a, b |-> b,
                       ab |-> NilMap, abb |-> NilMap, ba |-> NilMap] :
                      a \in AllMaps, b \in AllMaps }
    /\ nameRun = NoNameRun

pipelineVars == <<sigPending, sigSent, mainPc, caught, meta, files, issuerChan, fw,
                  idResults, mergedCrls, crlChan, count, cw, dlResults, dlClosed,
                  crlPaths, emitted, aw, aggFinished, enrollCalls, stored, jsonWritten>>

\* ab := copy of a; ab.Merge(b)
MergeBIntoA ==
    /\ mergeRun.step = "start"
    /\ mergeRun' = [mergeRun EXCEPT !.step = "merged", !.ab = Merge(mergeRun.a, mergeRun.b)]
    /\ UNCHANGED <<pipelineVars, nameRun>>

\* abb := copy of ab; abb.Merge(b)
MergeBAgain ==
    /\ mergeRun.step = "merged"
    /\ mergeRun' = [mergeRun EXCEPT !.step = "again", !.abb = Merge(mergeRun.ab, mergeRun.b)]
    /\ UNCHANGED <<pipelineVars, nameRun>>

\* ba := copy of b; ba.Merge(a)
MergeAIntoB ==
    /\ mergeRun.step = "again"
    /\ mergeRun' = [mergeRun EXCEPT !.step = "swapped", !.ba = Merge(mergeRun.b, mergeRun.a)]
    /\ UNCHANGED <<pipelineVars, nameRun>>

MergeNext == MergeBIntoA \/ MergeBAgain \/ MergeAIntoB

MergeSpec == MergeInit /\ [][MergeNext]_vars

----------------------------------------------------------------------------
(* makeFilenameFromUrl on its own, on any URL.                             *)

FilenameInit ==
    /\ sigPending = 0
    /\ sigSent = 0
    /\ mainPc = "filename"
    /\ caught = {}
    /\ meta = [i \in AllIssuers |-> {}]
    /\ files = [p \in Paths |-> NoFile]
    /\ issuerChan = <<>>
    /\ fw = [w \in Workers |-> IdleFind]
    /\ idResults = <<>>
    /\ mergedCrls = NilMap
    /\ crlChan = {}
    /\ count = 0
    /\ cw = [w \in Workers |-> IdleFetch]
    /\ dlResults = <<>>
    /\ dlClosed = FALSE
    /\ crlPaths = Nil
    /\ emitted = [i \in ProgramIssuers |-> NotSent]
    /\ aw = [w \in Workers |-> IdleAgg]
    /\ aggFinished = {}
    /\ enrollCalls = [i \in ProgramIssuers |-> 0]
    /\ stored = [i \in ProgramIssuers |-> NotStored]
    /\ jsonWritten = 0
    /\ mergeRun = NoMergeRun
    /\ nameRun \in { [NoNameRun EXCEPT !.step = "start", !.crlUrl = crlUrl] :
                     crlUrl \in CrlUrls }

\* filename := makeFilenameFromUrl(crlUrl)
MakeFilename ==
    /\ nameRun.step = "start"
    /\ nameRun' = [nameRun EXCEPT !.step = "done",
                                  !.filename = makeFilenameFromUrl(nameRun.crlUrl)]
    /\ UNCHANGED <<pipelineVars, mergeRun>>

FilenameNext == MakeFilename

FilenameSpec == FilenameInit /\ [][FilenameNext]_vars

----------------------------------------------------------------------------
(* Properties.                                                             *)

\* The CRL paths sent to the aggregation stage for an issuer.
PathsOf(issuer) ==
    {emitted[issuer].paths[k] : k \in 1..Len(emitted[issuer].paths)}

\* The CRLs that contributed to a list of serials.
CrlsIn(serials) == {serials[k].crl : k \in 1..Len(serials)}

\* The file is a well-formed CRL whose signature does not verify against
\* the issuer's certificate.
Forged(file, issuer) ==
    file # NoFile /\ file.form = "ok" /\ file.signer # issuer

\* The file is a CRL that the issuer signed and that lists serials.
ValidNonEmpty(file, issuer) ==
    file # NoFile /\ file.form = "ok" /\ file.signer = issuer /\ file.n > 0

\* C1: a CRL among an issuer's accepted paths whose signature does not
\* verify against the issuer's certificate contributes no serial to the
\* accumulator or to the list persisted for the issuer, and an issuer is
\* enrolled only when another accepted file is a signed, non-empty CRL;
\* whatever the file's age and however its path was accepted.
C1_ForgedCrlContributesNothing ==
    \A issuer \in ProgramIssuers : \A p \in PathsOf(issuer) :
        Forged(files[p], issuer) =>
            /\ \A w \in Workers :
                   aw[w].issuer = issuer => files[p].crl \notin CrlsIn(aw[w].serials)
            /\ stored[issuer].saved => files[p].crl \notin CrlsIn(stored[issuer].serials)
            /\ enrollCalls[issuer] > 0 =>
                   \E q \in PathsOf(issuer) : ValidNonEmpty(files[q], issuer)

\* A list was persisted for an issuer one of whose accepted paths holds a
\* forged CRL, accepted through the staleness fallback.
C1_Witness ==
    \E issuer \in ProgramIssuers :
        /\ stored[issuer].saved
        /\ \E p \in PathsOf(issuer) : Forged(files[p], issuer)

RECURSIVE ValidSerialCount(_, _)
\* The number of serials that the CRLs at the given paths yield when they
\* are validated against the issuer's certificate.
ValidSerialCount(paths, issuer) ==
    IF paths = <<>> THEN 0
    ELSE SerialLen(processCRL(files[Head(paths)], issuer).serials)
         + ValidSerialCount(Tail(paths), issuer)

\* C2: when no termination signal was caught, the list handed to
\* StoreKnownCertificateList for an issuer holds every serial of every
\* accepted CRL that validated: its length is the sum of their serial
\* counts, also when the sum exceeds the accumulator's initial capacity.
C2_StoredListHoldsEverySerial ==
    caught = {} =>
        \A issuer \in ProgramIssuers :
            stored[issuer].saved =>
                SerialLen(stored[issuer].serials) = ValidSerialCount(emitted[issuer].paths, issuer)

ReturnedWithEmptyIssuer(issuer) ==
    /\ mergedCrls # NilMap
    /\ issuer \in ProgramIssuers
    /\ meta[issuer] = {}

C5_EnrolledOnceAndForGood ==
    [][\A issuer \in ProgramIssuers :
          /\ enrollCalls'[issuer] <= 1
          /\ enrollCalls[issuer] > 0 => enrollCalls'[issuer] > 0]_vars

\* A worker has gone through two accepted CRLs of an issuer: the first
\* enrolled it, the second failed validation or was empty.
C5_Witness ==
    \E w \in Workers :
        /\ aw[w].pc = "paths"
        /\ aw[w].paths = <<>>
        /\ aw[w].issuerEnrolled
        /\ enrollCalls[aw[w].issuer] = 1
        /\ Len(emitted[aw[w].issuer].paths) = 2
        /\ ValidNonEmpty(files[emitted[aw[w].issuer].paths[1]], aw[w].issuer)
        /\ ~ValidNonEmpty(files[emitted[aw[w].issuer].paths[2]], aw[w].issuer)

\* C6: when a retrieval worker is done with a URL, it has added the final
\* path to the issuer's path list exactly when a file is at the final path
\* and is at most 336 hours old, whether the download failed, failed
\* validation or was renamed into place; a URL skipped because its
\* directory could not be made has no file and adds nothing.
C6_PathAddedIffFileNotTooOld ==
    [][\A w \in Workers :
          /\ (cw[w].pc = "download" /\ cw'[w].pc = "urls") =>
                LET p == finalPath(cw[w].issuer, cw[w].crlUrl)
                    usable == files'[p] # NoFile /\ Now - files'[p].mtime <= 336
                IN  cw'[w].paths = IF usable THEN Append(cw[w].paths, p)
                                   ELSE cw[w].paths
          /\ (cw[w].pc = "urls" /\ cw'[w].pc = "urls") =>
                /\ cw'[w].paths = cw[w].paths
                /\ \A u \in cw[w].urls \ cw'[w].urls :
                       files[finalPath(cw[w].issuer, u)] = NoFile]_vars

\* A worker has added a final path whose file is exactly 336 hours old,
\* and one whose file was downloaded and renamed in this run.
C6_Witness ==
    \E w \in Workers :
        /\ cw[w].pc = "urls"
        /\ Len(cw[w].paths) = 2
        /\ \E k \in 1..2 : Now - files[cw[w].paths[k]].mtime = 336
        /\ \E k \in 1..2 : files[cw[w].paths[k]].crl = "fresh3"

\* C7: merging b into a a second time changes nothing, and merging a into
\* b gives the same map as merging b into a.
C7_MergeIdempotentCommutative ==
    /\ mergeRun.step \in {"again", "swapped"} => mergeRun.abb = mergeRun.ab
    /\ mergeRun.step = "swapped" => mergeRun.ba = mergeRun.ab

\* The three merges are done for two maps that share an issuer with
\* different, non-empty URL sets and each hold an issuer the other lacks
\* or a URL the other lacks.
C7_Witness ==
    /\ mergeRun.step = "swapped"
    /\ DOMAIN mergeRun.a # DOMAIN mergeRun.b
    /\ \E issuer \in DOMAIN mergeRun.a \cap DOMAIN mergeRun.b :
          /\ mergeRun.a[issuer] # {}
          /\ mergeRun.b[issuer] # {}
          /\ mergeRun.a[issuer] # mergeRun.b[issuer]

\* C8: when an aggregation worker processes a CRL that its issuer signed
\* and whose nextUpdate has passed, processCRL returns its serials without
\* error: they are appended to the accumulator and counted, and a
\* non-empty list leaves the issuer enrolled.
C8_ExpiredSignedCrlContributes ==
    [][\A w \in Workers :
          (/\ aw[w].pc = "paths"
           /\ aw[w].paths # <<>>
           /\ aw'[w].pc = "paths"
           /\ aw'[w].paths = Tail(aw[w].paths)
           /\ files[Head(aw[w].paths)] # NoFile
           /\ files[Head(aw[w].paths)].form = "ok"
           /\ files[Head(aw[w].paths)].signer = aw[w].issuer
           /\ files[Head(aw[w].paths)].expired)
          => LET file == files[Head(aw[w].paths)]
             IN  /\ aw'[w].serialCount = aw[w].serialCount + file.n
                 /\ file.n > 0 =>
                       /\ aw'[w].serials # <<>>
                       /\ aw'[w].serials[Len(aw'[w].serials)] =
                             [crl |-> file.crl, n |-> file.n]
                       /\ aw'[w].issuerEnrolled
                       /\ enrollCalls'[aw[w].issuer] > 0]_vars

\* A worker has just appended the serial of an expired CRL and the issuer
\* is enrolled.
C8_Witness ==
    \E w \in Workers :
        /\ aw[w].pc = "paths"
        /\ aw[w].issuerEnrolled
        /\ enrollCalls[aw[w].issuer] > 0
        /\ aw[w].serials # <<>>
        /\ aw[w].serials[Len(aw[w].serials)].crl = "expired1"

\* C9: once the retrieval stage has caught a termination signal, there is
\* no aggregation output: no issuer is enrolled, no list is persisted and
\* the enrolled-issuer document is not written.
C9_NoOutputAfterRetrievalCancel ==
    "download" \in caught =>
        /\ \A issuer \in ProgramIssuers :
              enrollCalls[issuer] = 0 /\ ~stored[issuer].saved
        /\ jsonWritten = 0

\* downloadCRLs has returned after catching the signal, results of the
\* retrieval stage lie in resultChan, and the aggregation workers run.
C9_Witness ==
    /\ "download" \in caught
    /\ mainPc = "aggregate"
    /\ dlResults # <<>>
    /\ \E issuer \in ProgramIssuers :
          \E p \in PathsOf(issuer) : ValidNonEmpty(files[p], issuer)
    /\ \A w \in Workers : aw[w].pc = "range"

\* C10: when the retrieval stage has caught a termination signal while a
\* worker is in a download, and no further signal is sent, the process
\* exits in the end.
C10_ExitsAfterRetrievalCancel ==
    (/\ mainPc = "downloadQuit"
     /\ \E w \in Workers : cw[w].pc = "download"
     /\ sigSent = MaxSignals) ~> ~Running

\* C11: once the aggregation stage has caught a termination signal, the
\* run is abandoned: the enrolled-issuer document is not written.
C11_NoJsonAfterAggregationCancel ==
    "aggregate" \in caught => jsonWritten = 0

\* The name makeFilenameFromUrl returned holds a path separator.
HasSeparator(filename) ==
    \E k \in 1..Len(filename.stem) : filename.stem[k] = "/"

\* C12: for every CRL URL, also one whose path is empty or is "/", the
\* name makeFilenameFromUrl returns holds no path separator.
C12_FilenameHasNoSeparator ==
    nameRun.step = "done" => ~HasSeparator(nameRun.filename)

\* C13: in every run, with or without a termination signal, no retrieval
\* worker runs while a discovery worker has not finished, and no
\* aggregation worker runs while a retrieval worker has not finished or
\* before the retrieval stage's resultChan is closed.
C13_StagesStrictlySequential ==
    /\ (\E w \in Workers : cw[w].pc # "idle") =>
          \A w \in Workers : fw[w].pc \in {"done", "quit"}
    /\ (\E w \in Workers : aw[w].pc # "idle") =>
          /\ \A w \in Workers : cw[w].pc \in {"done", "quit"}
          /\ dlClosed

\* C14: once the orchestrator of a stage has caught the termination signal
\* and stands at (or is past) its send on quitChan, no worker of that
\* stage starts on another issuer, URL or CRL path.
C14_NoNewItemAfterCancel ==
    [][/\ "identify" \in caught =>
             \A w \in Workers :
                 ~(fw'[w].pc = "range" /\ fw'[w].issuerCrls # fw[w].issuerCrls)
       /\ "download" \in caught =>
             \A w \in Workers :
                 ~(cw[w].pc = "urls" /\ cw'[w].pc = "urls" /\ cw'[w].urls # cw[w].urls)
                 /\ ~(cw[w].pc = "urls" /\ cw'[w].pc = "download")
       /\ "aggregate" \in caught =>
             \A w \in Workers :
                 ~(aw[w].pc = "paths" /\ aw'[w].pc = "paths"
                   /\ aw'[w].paths # aw[w].paths)]_vars

\* C15: when the discovery stage has caught a termination signal, the
\* process exits in the end, whenever the signal arrived.
C15_ExitsAfterDiscoveryCancel ==
    ("identify" \in caught) ~> ~Running

\* The map the discovery stage has to return: every issuer of the root
\* program with the CRL URLs of its metadata.
ExpectedCrls == [issuer \in ProgramIssuers |-> meta[issuer]]

\* C16: a discovery worker's step writes only to that worker's own map,
\* leaving the other workers' maps and the merged map alone; the merge
\* into mergedCrls happens only when every discovery worker has finished,
\* and its result is the same map whichever worker took which issuer.
C16_MergeOnlyAfterAllWorkersDone ==
    [][/\ \A w \in Workers :
             fw'[w] # fw[w] /\ mainPc = "identify" =>
                 /\ mergedCrls' = mergedCrls
                 /\ \A v \in Workers \ {w} : fw'[v] = fw[v]
       /\ mergedCrls' # mergedCrls =>
             /\ \A w \in Workers : fw[w].pc = "done"
             /\ mergedCrls' = ExpectedCrls]_vars

\* The merged map has been returned, with URLs for both issuers of the
\* root program.
C16_Witness ==
    /\ mainPc = "identified"
    /\ mergedCrls = ExpectedCrls
    /\ \A issuer \in ProgramIssuers : mergedCrls[issuer] # {}

\* The temp paths no retrieval worker is downloading to or validating.
IdleTmpPaths ==
    {p \in Paths : p[1] = "tmp"} \
    {tmpPath(cw[w].issuer, cw[w].crlUrl) : w \in {v \in Workers : cw[v].pc = "download"}}

\* C17: when a worker is done with an (issuer, URL) unit whose download
\* failed validation, no file is left at the unit's temp path.
C17_RejectedTempFileDiscarded ==
    \A p \in IdleTmpPaths : files[p] # Rejected

\* C18: the file at a final path changes only in the step of the worker
\* that downloaded a file for that path, to that downloaded file, which
\* processCRL accepts for the issuer; a step that ends with the download
\* failed, or with the downloaded file left at the temp path because its
\* validation or the rename failed, leaves the final path's file as it was.
C18_FinalReplacedOnlyByValidatedDownload ==
    [][/\ \A p \in Paths :
             p[1] = "final" /\ files'[p] # files[p] =>
                 \E w \in Workers :
                     /\ cw[w].pc = "download" /\ cw'[w].pc = "urls"
                     /\ p = finalPath(cw[w].issuer, cw[w].crlUrl)
                     /\ files'[p] \in RemoteFiles(cw[w].issuer)
                     /\ processCRL(files'[p], cw[w].issuer).err = Nil
                     /\ files'[tmpPath(cw[w].issuer, cw[w].crlUrl)] = NoFile
       /\ \A w \in Workers :
             (/\ cw[w].pc = "download" /\ cw'[w].pc = "urls"
              /\ \/ files'[tmpPath(cw[w].issuer, cw[w].crlUrl)] # NoFile
                 \/ files' = files)
             => files'[finalPath(cw[w].issuer, cw[w].crlUrl)] =
                    files[finalPath(cw[w].issuer, cw[w].crlUrl)]]_vars

\* In one cache directory a final path holds a file downloaded in this
\* run, and another final path still holds its old file next to a
\* rejected download at the temp path.
C18_Witness ==
    \E issuer \in ProgramIssuers :
        /\ files[finalPath(issuer, "A")] # NoFile
        /\ files[finalPath(issuer, "A")].crl \in {"fresh3", "huge"}
        /\ files[tmpPath(issuer, "B")] = Rejected
        /\ files[finalPath(issuer, "B")] # NoFile
        /\ files[finalPath(issuer, "B")].crl = "expired1"

\* The issuers downloadCRLs queued a work item for, those whose item is
\* still in crlChan, the issuer whose item a worker holds, and those a
\* result was sent for.
QueuedIssuers == {t.Issuer : t \in IssuerCrlUrlsOf(mergedCrls)}
WaitingIssuers == {t.Issuer : t \in crlChan}
HeldBy(w) == IF cw[w].pc \in {"urls", "download"} THEN {cw[w].issuer} ELSE {}
SentIssuers == {issuer \in ProgramIssuers : emitted[issuer].sent}

\* C19: in a run without a termination signal every queued work item is,
\* at any moment of the retrieval stage, either still queued, or held by
\* exactly one worker, or answered by exactly one result in resultChan;
\* a worker that is ready to send finds room in resultChan; and when
\* downloadCRLs returns, resultChan holds one result per queued item,
\* count of them.
C19_OneWorkerOneResultPerItem ==
    /\ (sigSent = 0 /\ mainPc = "download") =>
          /\ \A w, v \in Workers : w # v => HeldBy(w) \cap HeldBy(v) = {}
          /\ \A w \in Workers :
                HeldBy(w) \cap (WaitingIssuers \cup SentIssuers) = {}
          /\ WaitingIssuers \cap SentIssuers = {}
          /\ WaitingIssuers \cup SentIssuers \cup UNION {HeldBy(w) : w \in Workers}
                = QueuedIssuers
          /\ Cardinality(crlChan) = Cardinality(WaitingIssuers)
          /\ Len(dlResults) = Cardinality(SentIssuers)
          /\ {dlResults[k].Issuer : k \in 1..Len(dlResults)} = SentIssuers
          /\ \A w \in Workers :
                cw[w].pc = "urls" /\ cw[w].urls = {} => Len(dlResults) < count
    /\ (sigSent = 0 /\ mainPc = "downloaded") =>
          /\ count = Cardinality(QueuedIssuers)
          /\ Len(dlResults) = count
          /\ SentIssuers = QueuedIssuers
          /\ {dlResults[k].Issuer : k \in 1..Len(dlResults)} = QueuedIssuers

\* downloadCRLs has returned two results without a signal: one with an
\* empty path list, every URL of its issuer having been rejected, and one
\* with paths.
C19_Witness ==
    /\ sigSent = 0
    /\ mainPc = "downloaded"
    /\ count = 2
    /\ \E k \in 1..Len(dlResults) : dlResults[k].CrlPaths = <<>>
    /\ \E k \in 1..Len(dlResults) : dlResults[k].CrlPaths # <<>>

\* Every worker of the three stages has returned, main has returned, and
\* the enrolled-issuer document was written once.
Terminated ==
    /\ mainPc = "exit"
    /\ jsonWritten = 1
    /\ \A w \in Workers :
          fw[w].pc = "done" /\ cw[w].pc = "done" /\ aw[w].pc = "done"

====
